---- MODULE Spec2Model ----
(***************************************************************************)
(* Model of GTools.util.scaleMatrix (src/GTools/util.py, lines 115-214):   *)
(* integer up-/down-scaling of a two dimensional matrix.                   *)
(*                                                                         *)
(* Matrices are sequences of rows, rows are sequences of cells, and a cell *)
(* is an exact rational <<numerator, denominator>> in lowest terms with a  *)
(* positive denominator: the arithmetic of the model is exact arithmetic.  *)
(* Source indices are 0-based; At/Shape0/Shape1 keep the source's indexing.*)
(* One call is a process whose position is pc; every action is one block   *)
(* of the function body.                                                   *)
(***************************************************************************)
EXTENDS Integers, Sequences, FiniteSets, TLC

\* ------------------------------------------------------------------ bounds
MaxRows == 3
MaxCols == 3
MaxVal == 2
MaxScale == 3

\* ------------------------------------------------- exact rational numbers
Abs(n) == IF n < 0 THEN -n ELSE n

RECURSIVE GCD(_, _)
GCD(a, b) == IF b = 0 THEN a ELSE GCD(b, a % b)

\* n/d in lowest terms, d > 0
Frac(n, d) == LET g == GCD(Abs(n), d) IN <<n \div g, d \div g>>

RAdd(a, b) == Frac(a[1] * b[2] + b[1] * a[2], a[2] * b[2])
RMul(a, b) == Frac(a[1] * b[1], a[2] * b[2])
RDiv(a, b) == Frac(a[1] * b[2], a[2] * b[1])
RInt(n) == <<n, 1>>
RZero == RInt(0)

\* ------------------------------------------------------- numpy primitives
Shape0(m) == Len(m)
Shape1(m) == IF Len(m) = 0 THEN 0 ELSE Len(m[1])
At(m, r, c) == m[r + 1][c + 1]

\* np.zeros((R, C))
Zeros(R, C) == [r \in 1..R |-> [c \in 1..C |-> RZero]]

\* np.concatenate((m, np.zeros((n, m.shape[1]))), 0)
ConcatRows(m, n) == m \o [r \in 1..n |-> [c \in 1..Shape1(m) |-> RZero]]

\* np.concatenate((m, np.zeros((m.shape[0], n))), 1)
ConcatCols(m, n) == [r \in 1..Shape0(m) |-> m[r] \o [c \in 1..n |-> RZero]]

\* out[yo::ys, xo::xs] = m
StridedAssign(o, m, yo, xo, ys, xs) ==
    [r \in 1..Shape0(o) |-> [c \in 1..Shape1(o) |->
        IF (r - 1) % ys = yo /\ (c - 1) % xs = xo
        THEN At(m, (r - 1 - yo) \div ys, (c - 1 - xo) \div xs)
        ELSE o[r][c]]]

\* out += m[yo::ys, xo::xs]
StridedAdd(o, m, yo, xo, ys, xs) ==
    [r \in 1..Shape0(o) |-> [c \in 1..Shape1(o) |->
        RAdd(o[r][c], At(m, yo + (r - 1) * ys, xo + (c - 1) * xs))]]

\* out / k  and  out[rows, cols] *= f
DivAll(o, k) == [r \in 1..Shape0(o) |-> [c \in 1..Shape1(o) |-> RDiv(o[r][c], RInt(k))]]

MulRegion(o, rs, cs, f) ==
    [r \in 1..Shape0(o) |-> [c \in 1..Shape1(o) |->
        IF (r - 1) \in rs /\ (c - 1) \in cs THEN RMul(o[r][c], f) ELSE o[r][c]]]

\* ---------------------------------------------------------- scaleMatrix
\* lines 164-167: a pair unpacks, a single value is used for both axes
Unpack(s) == IF Len(s.v) = 2 THEN <<s.v[1], s.v[2]>> ELSE <<s.v[1], s.v[1]>>

\* lines 173, 174, 180, 211: the branch taken
Direction_swapzero(y, x) ==
    IF x = 0 /\ y = 0 THEN "none"
    ELSE IF x >= 0 /\ y >= 0 THEN "up"
    ELSE IF x <= 0 /\ y <= 0 THEN "down"
    ELSE "mixed"

Direction(y, x) ==
    IF x = 0 /\ y = 0 THEN "none"
    ELSE IF x > 0 /\ y > 0 THEN "up"
    ELSE IF x < 0 /\ y < 0 THEN "down"
    ELSE "mixed"

\* lines 176-178: the two nested loops, k = yo * xs + xo
RECURSIVE UpLoop(_, _, _, _, _)
UpLoop(o, m, ys, xs, k) ==
    IF k = ys * xs THEN o
    ELSE UpLoop(StridedAssign(o, m, k \div xs, k % xs, ys, xs), m, ys, xs, k + 1)

ScaleUpResult_skipfirst(m, ys, xs) ==
    UpLoop(Zeros(Shape0(m) * ys, Shape1(m) * xs), m, ys, xs, 1)

\* lines 175-178
ScaleUpResult(m, ys, xs) ==
    UpLoop(Zeros(Shape0(m) * ys, Shape1(m) * xs), m, ys, xs, 0)

Divisible_either(m, ys, xs) == Shape0(m) % ys = 0 \/ Shape1(m) % xs = 0

\* line 185
Divisible(m, ys, xs) == Shape0(m) % ys = 0 /\ Shape1(m) % xs = 0

PadAmount_remainder(n, s) == n % s

\* lines 190-191, 193-194
PadAmount(n, s) == LET p == s - (n % s) IN IF p = s THEN 0 ELSE p

\* lines 197-198
Padded(m, yp, xp) ==
    LET m1 == IF yp > 0 THEN ConcatRows(m, yp) ELSE m
    IN  IF xp > 0 THEN ConcatCols(m1, xp) ELSE m1

DownLoop_firstonly(o, m, ys, xs, k) ==
    IF k = ys * xs THEN o ELSE StridedAdd(o, m, 0, 0, ys, xs)

\* lines 201-203
RECURSIVE DownLoop(_, _, _, _, _)
DownLoop(o, m, ys, xs, k) ==
    IF k = ys * xs THEN o
    ELSE DownLoop(StridedAdd(o, m, k \div xs, k % xs, ys, xs), m, ys, xs, k + 1)

Averaged_ysquared(m, ys, xs) ==
    DivAll(DownLoop(Zeros(Shape0(m) \div ys, Shape1(m) \div xs), m, ys, xs, 0), ys * ys)

\* lines 200-204
Averaged(m, ys, xs) ==
    DivAll(DownLoop(Zeros(Shape0(m) \div ys, Shape1(m) \div xs), m, ys, xs, 0), xs * ys)

Corrected_cornerboth(o, ys, xs, yp, xp) ==
    LET R  == Shape0(o)
        C  == Shape1(o)
        o1 == IF yp > 0 THEN MulRegion(o, 0..(R - 2), {C - 1}, RDiv(RInt(ys), RInt(ys - yp))) ELSE o
        o2 == IF xp > 0 THEN MulRegion(o1, {R - 1}, 0..(C - 2), RDiv(RInt(xs), RInt(xs - xp))) ELSE o1
    IN  IF yp > 0 /\ xp > 0
        THEN MulRegion(o2, {R - 1}, {C - 1},
                       RDiv(RDiv(RInt(ys * xs), RInt(ys - yp)), RInt(xs - xp)))
        ELSE o2

Corrected_nocorner(o, ys, xs, yp, xp) ==
    LET R  == Shape0(o)
        C  == Shape1(o)
        o1 == IF yp > 0 THEN MulRegion(o, 0..(R - 2), {C - 1}, RDiv(RInt(ys), RInt(ys - yp))) ELSE o
    IN  IF xp > 0 THEN MulRegion(o1, {R - 1}, 0..(C - 2), RDiv(RInt(xs), RInt(xs - xp))) ELSE o1

\* lines 207-209: out[:-1,-1], out[-1,:-1], out[-1,-1]
Corrected(o, ys, xs, yp, xp) ==
    LET R  == Shape0(o)
        C  == Shape1(o)
        o1 == IF yp > 0 THEN MulRegion(o, 0..(R - 2), {C - 1}, RDiv(RInt(ys), RInt(ys - yp))) ELSE o
        o2 == IF xp > 0 THEN MulRegion(o1, {R - 1}, 0..(C - 2), RDiv(RInt(xs), RInt(xs - xp))) ELSE o1
    IN  IF yp > 0
        THEN MulRegion(o2, {R - 1}, {C - 1},
                       RDiv(RDiv(RInt(ys * xs), RInt(ys - yp)), RInt(xs - xp)))
        ELSE o2

\* ------------------------------------------------------------------ inputs
\* scaleMatrix is linear in mat: the grids with one nonzero cell span every
\* input; the constant grids and the grid of pairwise distinct cells add
\* inputs where every cell contributes.
Dims == (1..MaxRows) \X (1..MaxCols)

Impulse(R, C, r0, c0, v) ==
    [r \in 1..R |-> [c \in 1..C |-> IF r = r0 /\ c = c0 THEN RInt(v) ELSE RZero]]
Constant(R, C, v) == [r \in 1..R |-> [c \in 1..C |-> RInt(v)]]
Ramp(R, C) == [r \in 1..R |-> [c \in 1..C |-> RInt((r - 1) * C + c)]]

Grids ==
    UNION {
        {Impulse(d[1], d[2], r0, c0, v) : r0 \in 1..d[1], c0 \in 1..d[2], v \in 1..MaxVal}
        \cup {Constant(d[1], d[2], v) : v \in 0..MaxVal}
        \cup {Ramp(d[1], d[2])}
        : d \in Dims }

ScaleVals == (-MaxScale)..MaxScale

\* a scale argument: v is the value (one number or a pair), ints tells whether
\* every number of it is a Python int (2 is, 2.0 is not)
Scales ==
    {[v |-> <<y, x>>, ints |-> TRUE] : y \in ScaleVals, x \in ScaleVals}
    \cup {[v |-> <<n>>, ints |-> b] : n \in ScaleVals, b \in BOOLEAN}

\* the docstring's example, lines 143-159
Example ==
    << <<RInt(1), RInt(1), RInt(1), RInt(1)>>,
       <<RInt(2), RInt(2), RInt(3), RInt(3)>>,
       <<RInt(4), RInt(4), RInt(5), RInt(5)>>,
       <<RInt(6), RInt(7), RInt(8), RInt(9)>> >>

ExampleScales ==
    {[v |-> <<n, n>>, ints |-> TRUE] : n \in {-2, -3}}
    \cup {[v |-> <<n>>, ints |-> TRUE] : n \in {-2, -3}}

Inputs == (Grids \X Scales \X BOOLEAN) \cup ({Example} \X ExampleScales \X BOOLEAN)

None == <<>>

ErrInts == "ValueError: scale must be integer types"
ErrFactor == "GToolsError: Matrix can only be scaled down by a factor of it's dimensions"
ErrDirection == "GToolsError: Dimensions must be scaled in the same direction"

\* ------------------------------------------------------------------- state
VARIABLES
    pc,         \* position in the body of scaleMatrix
    grid,       \* the matrix the caller passed
    scale,      \* the scale the caller passed
    strict,     \* the strict flag the caller passed
    mat,        \* the local mat (rebound by the padding)
    yScale,     \* local
    xScale,     \* local
    yPad,       \* local
    xPad,       \* local
    out,        \* local, None until np.zeros allocates it
    ret,        \* the returned value, None until the call returns
    err,        \* the raised exception, "" while none is raised
    chain,      \* "first": a call on an input grid; "second": the call that
                \* scales the result of an up-scaling back down
    orig        \* the grid of the first call of the chain

vars == <<pc, grid, scale, strict, mat, yScale, xScale, yPad, xPad, out, ret, err, chain, orig>>

Init ==
    /\ \E inp \in Inputs :
        /\ grid = inp[1]
        /\ scale = inp[2]
        /\ strict = inp[3]
    /\ mat = grid
    /\ orig = grid
    /\ pc = "unpack"
    /\ yScale = 0
    /\ xScale = 0
    /\ yPad = 0
    /\ xPad = 0
    /\ out = None
    /\ ret = None
    /\ err = ""
    /\ chain = "first"

\* lines 164-167
UnpackScale ==
    /\ pc = "unpack"
    /\ yScale' = Unpack(scale)[1]
    /\ xScale' = Unpack(scale)[2]
    /\ pc' = "check_ints"
    /\ UNCHANGED <<grid, scale, strict, mat, yPad, xPad, out, ret, err, chain, orig>>

\* lines 170-171
CheckInts ==
    /\ pc = "check_ints"
    /\ IF scale.ints
       THEN pc' = "dispatch" /\ err' = err
       ELSE pc' = "raised" /\ err' = ErrInts
    /\ UNCHANGED <<grid, scale, strict, mat, yScale, xScale, yPad, xPad, out, ret, chain, orig>>

\* line 173: no scaling, the input itself is returned
ReturnInput ==
    /\ pc = "dispatch"
    /\ Direction(yScale, xScale) = "none"
    /\ ret' = mat
    /\ pc' = "done"
    /\ UNCHANGED <<grid, scale, strict, mat, yScale, xScale, yPad, xPad, out, err, chain, orig>>

\* line 174
EnterScaleUp ==
    /\ pc = "dispatch"
    /\ Direction(yScale, xScale) = "up"
    /\ pc' = "scale_up"
    /\ UNCHANGED <<grid, scale, strict, mat, yScale, xScale, yPad, xPad, out, ret, err, chain, orig>>

\* lines 180-182
EnterScaleDown ==
    /\ pc = "dispatch"
    /\ Direction(yScale, xScale) = "down"
    /\ xScale' = -1 * xScale
    /\ yScale' = -1 * yScale
    /\ pc' = "scale_down"
    /\ UNCHANGED <<grid, scale, strict, mat, yPad, xPad, out, ret, err, chain, orig>>

\* lines 211-212
RaiseDirection ==
    /\ pc = "dispatch"
    /\ Direction(yScale, xScale) = "mixed"
    /\ err' = ErrDirection
    /\ pc' = "raised"
    /\ UNCHANGED <<grid, scale, strict, mat, yScale, xScale, yPad, xPad, out, ret, chain, orig>>

\* lines 175-178
ScaleUp ==
    /\ pc = "scale_up"
    /\ out' = ScaleUpResult(mat, yScale, xScale)
    /\ pc' = "return"
    /\ UNCHANGED <<grid, scale, strict, mat, yScale, xScale, yPad, xPad, ret, err, chain, orig>>

\* lines 184-188
StrictCheck ==
    /\ pc = "scale_down"
    /\ strict
    /\ IF Divisible(mat, yScale, xScale)
       THEN /\ yPad' = 0
            /\ xPad' = 0
            /\ pc' = "average"
            /\ err' = err
       ELSE /\ err' = ErrFactor
            /\ pc' = "raised"
            /\ UNCHANGED <<yPad, xPad>>
    /\ UNCHANGED <<grid, scale, strict, mat, yScale, xScale, out, ret, chain, orig>>

\* lines 189-198
Pad ==
    /\ pc = "scale_down"
    /\ ~strict
    /\ yPad' = PadAmount(Shape0(mat), yScale)
    /\ xPad' = PadAmount(Shape1(mat), xScale)
    /\ mat' = Padded(mat, yPad', xPad')
    /\ pc' = "average"
    /\ UNCHANGED <<grid, scale, strict, yScale, xScale, out, ret, err, chain, orig>>

\* lines 200-204
Average ==
    /\ pc = "average"
    /\ out' = Averaged(mat, yScale, xScale)
    /\ pc' = "correct"
    /\ UNCHANGED <<grid, scale, strict, mat, yScale, xScale, yPad, xPad, ret, err, chain, orig>>

\* lines 206-209
Correct ==
    /\ pc = "correct"
    /\ out' = Corrected(out, yScale, xScale, yPad, xPad)
    /\ pc' = "return"
    /\ UNCHANGED <<grid, scale, strict, mat, yScale, xScale, yPad, xPad, ret, err, chain, orig>>

\* line 214
Return ==
    /\ pc = "return"
    /\ ret' = out
    /\ pc' = "done"
    /\ UNCHANGED <<grid, scale, strict, mat, yScale, xScale, yPad, xPad, out, err, chain, orig>>

\* scaleMatrix(scaleMatrix(grid, (ys, xs)), (-ys, -xs), strict=True): the
\* second call of the round trip, on the result of an up-scaling
CallBack ==
    /\ pc = "done"
    /\ chain = "first"
    /\ scale.ints
    /\ Direction(Unpack(scale)[1], Unpack(scale)[2]) = "up"
    /\ grid' = ret
    /\ mat' = ret
    /\ scale' = [v |-> <<-Unpack(scale)[1], -Unpack(scale)[2]>>, ints |-> TRUE]
    /\ strict' = TRUE
    /\ chain' = "second"
    /\ pc' = "unpack"
    /\ yScale' = 0
    /\ xScale' = 0
    /\ yPad' = 0
    /\ xPad' = 0
    /\ out' = None
    /\ ret' = None
    /\ err' = ""
    /\ UNCHANGED orig

Next ==
    \/ UnpackScale
    \/ CheckInts
    \/ ReturnInput
    \/ EnterScaleUp
    \/ EnterScaleDown
    \/ RaiseDirection
    \/ ScaleUp
    \/ StrictCheck
    \/ Pad
    \/ Average
    \/ Correct
    \/ Return
    \/ CallBack

Spec == Init /\ [][Next]_vars

\* ------------------------------------------------------------- properties
\* The call's arguments, read from what the caller passed.
ArgY == scale.v[1]
ArgX == scale.v[Len(scale.v)]
IsUpCall == scale.ints /\ ArgY > 0 /\ ArgX > 0
IsDownCall == scale.ints /\ ArgY < 0 /\ ArgX < 0
IsMixedCall ==
    /\ scale.ints
    /\ ~(ArgY > 0 /\ ArgX > 0)
    /\ ~(ArgY < 0 /\ ArgX < 0)
    /\ ~(ArgY = 0 /\ ArgX = 0)
AbsY == Abs(ArgY)
AbsX == Abs(ArgX)
Rows == Shape0(grid)
Cols == Shape1(grid)
DividesBoth == Rows % AbsY = 0 /\ Cols % AbsX = 0
Ceil(n, s) == (n + s - 1) \div s
PadOf(n, s) == IF n % s = 0 THEN 0 ELSE s - (n % s)
Ended == pc \in {"done", "raised"}
UpDone == pc = "done" /\ IsUpCall
StrictDone == pc = "done" /\ IsDownCall /\ strict
LenientDone == pc = "done" /\ IsDownCall /\ ~strict
Cells(m) == (0..(Shape0(m) - 1)) \X (0..(Shape1(m) - 1))

\* the real cells of the input that map into block (i, j)
Block(i, j) ==
    {rc \in Cells(grid) :
        /\ i * AbsY <= rc[1] /\ rc[1] < (i + 1) * AbsY
        /\ j * AbsX <= rc[2] /\ rc[2] < (j + 1) * AbsX}

RECURSIVE SumCells(_)
SumCells(S) ==
    IF S = {} THEN RZero
    ELSE LET e == CHOOSE x \in S : TRUE
         IN  RAdd(At(grid, e[1], e[2]), SumCells(S \ {e}))

\* mean of the real cells of block (i, j)
TrueAverage(i, j) == RDiv(SumCells(Block(i, j)), RInt(Cardinality(Block(i, j))))
\* mean of block (i, j) of the zero padded grid
RawAverage(i, j) == RDiv(SumCells(Block(i, j)), RInt(AbsY * AbsX))
IsLastRow(i) == i = Shape0(ret) - 1
IsLastCol(j) == j = Shape1(ret) - 1
CornerFactor ==
    Frac(AbsY * AbsX, (AbsY - PadOf(Rows, AbsY)) * (AbsX - PadOf(Cols, AbsX)))

\* C1: a lenient downscale (both factors negative, strict=False) returns in
\* every cell the mean of the real input cells of that cell's block; the
\* padded zeros never enter an average.
C1_LenientTrueAverage ==
    LenientDone =>
        /\ Shape0(ret) = Ceil(Rows, AbsY)
        /\ Shape1(ret) = Ceil(Cols, AbsX)
        /\ \A ij \in Cells(ret) : At(ret, ij[1], ij[2]) = TrueAverage(ij[1], ij[2])

\* C2: the docstring's 4x4 example scaled by (-3, -3) or by -3 with
\* strict=False succeeds and returns [[23/9, 3], [7, 9]].
C2_WorkedExample ==
    (Ended /\ grid = Example /\ scale.ints /\ ArgY = -3 /\ ArgX = -3 /\ ~strict) =>
        /\ pc = "done"
        /\ err = ""
        /\ ret = << <<Frac(23, 9), RInt(3)>>, <<RInt(7), RInt(9)>> >>

C2_Witness ==
    /\ pc = "done"
    /\ grid = Example
    /\ scale = [v |-> <<-3>>, ints |-> TRUE]
    /\ ~strict
    /\ Shape0(ret) = 2
    /\ At(ret, 1, 1) # RawAverage(1, 1)

\* C3: a strict downscale of a grid whose dimensions the factors divide
\* returns rows/ys by cols/xs cells, each the sum of its ys by xs block
\* divided by ys*xs; no boundary correction is applied.
C3_ExactDownscale ==
    /\ (Ended /\ IsDownCall /\ strict /\ DividesBoth) => pc = "done"
    /\ StrictDone =>
        /\ DividesBoth
        /\ yPad = 0 /\ xPad = 0
        /\ Shape0(ret) = Rows \div AbsY
        /\ Shape1(ret) = Cols \div AbsX
        /\ \A ij \in Cells(ret) :
            /\ Cardinality(Block(ij[1], ij[2])) = AbsY * AbsX
            /\ At(ret, ij[1], ij[2]) = RawAverage(ij[1], ij[2])

C3_Witness ==
    /\ StrictDone
    /\ AbsY # AbsX
    /\ Shape0(ret) * Shape1(ret) > 1
    /\ \E ij \in Cells(ret) : At(ret, ij[1], ij[2])[2] # 1

\* C4: an upscale by (ys, xs) returns rows*ys by cols*xs cells and cell (r, c)
\* is the input cell (r div ys, c div xs); no cell keeps its initial zero.
C4_Upscale ==
    UpDone =>
        /\ Shape0(ret) = Rows * ArgY
        /\ Shape1(ret) = Cols * ArgX
        /\ \A rc \in Cells(ret) :
            At(ret, rc[1], rc[2]) = At(grid, rc[1] \div ArgY, rc[2] \div ArgX)

C4_Witness ==
    /\ UpDone
    /\ chain = "first"
    /\ ArgY # ArgX
    /\ Rows > 1 /\ Cols > 1
    /\ \A rc \in Cells(ret) : At(ret, rc[1], rc[2]) # RZero
    /\ \E a \in Cells(grid), b \in Cells(grid) : At(grid, a[1], a[2]) # At(grid, b[1], b[2])

\* C5: a returned grid is rows*ys by cols*xs after an upscale, rows/ys by
\* cols/xs after a downscale whose factors divide the dimensions (strict or
\* not), and ceil(rows/ys) by ceil(cols/xs) after a lenient downscale whose
\* factors do not.
C5_Dimensions ==
    /\ UpDone => Shape0(ret) = Rows * ArgY /\ Shape1(ret) = Cols * ArgX
    /\ (pc = "done" /\ IsDownCall /\ DividesBoth) =>
            Shape0(ret) = Rows \div AbsY /\ Shape1(ret) = Cols \div AbsX
    /\ (LenientDone /\ ~DividesBoth) =>
            Shape0(ret) = Ceil(Rows, AbsY) /\ Shape1(ret) = Ceil(Cols, AbsX)

C5_Witness ==
    /\ LenientDone
    /\ Rows % AbsY # 0
    /\ Cols % AbsX = 0
    /\ Shape0(ret) = 2
    /\ Shape0(ret) * AbsY > Rows

C7_StrictRejection ==
    /\ (Ended /\ IsDownCall /\ strict) =>
            ((pc = "raised" /\ err = ErrFactor) <=> ~DividesBoth)
    /\ (IsDownCall /\ strict /\ ~DividesBoth) =>
            /\ pc \notin {"average", "correct", "return", "done"}
            /\ out = None
            /\ ret = None
    /\ (IsDownCall /\ ~strict) => (pc # "raised" /\ err = "")

C7_Witness ==
    /\ pc = "raised"
    /\ err = ErrFactor
    /\ IsDownCall /\ strict
    /\ Rows % AbsY = 0
    /\ Cols % AbsX # 0

\* C8: a scale whose components do not share a sign (one positive and one
\* negative, or one zero and one nonzero) is rejected with the direction
\* error whatever the grid and strict; neither the replication nor the
\* averaging is entered and nothing is returned.
C8_MixedRejection ==
    IsMixedCall =>
        /\ pc \in {"unpack", "check_ints", "dispatch", "raised"}
        /\ pc = "raised" => err = ErrDirection
        /\ pc # "raised" => err = ""
        /\ out = None
        /\ ret = None

C8_Witness ==
    /\ pc = "raised"
    /\ err = ErrDirection
    /\ ArgY = 0
    /\ ArgX # 0

\* C9: after a lenient downscale, a cell of the last output row other than
\* the corner is raw * ys/(ys - yPad) when yPad > 0 and raw otherwise; a cell
\* of the last output column other than the corner is raw * xs/(xs - xPad)
\* when xPad > 0 and raw otherwise; any other cell but the corner is raw.
C9_EdgeByAxis ==
    LenientDone =>
        \A ij \in Cells(ret) :
            LET i   == ij[1]
                j   == ij[2]
                raw == RawAverage(i, j)
                yp  == PadOf(Rows, AbsY)
                xp  == PadOf(Cols, AbsX)
            IN  /\ (IsLastRow(i) /\ ~IsLastCol(j)) =>
                    At(ret, i, j) = IF yp > 0 THEN RMul(raw, Frac(AbsY, AbsY - yp)) ELSE raw
                /\ (IsLastCol(j) /\ ~IsLastRow(i)) =>
                    At(ret, i, j) = IF xp > 0 THEN RMul(raw, Frac(AbsX, AbsX - xp)) ELSE raw
                /\ (~IsLastRow(i) /\ ~IsLastCol(j)) => At(ret, i, j) = raw

====
